---- MODULE Spec2Model ----
(***************************************************************************)
(* A model of SyncServer (src/websocket_server.py): the per-document       *)
(* session registry, the document cache, the change history with undo and  *)
(* redo, the full-sync conflict rule, the broadcast router and the         *)
(* path-addressed change engine (apply_change / revert_change).           *)
(*                                                                         *)
(* Three specifications share the variables:                               *)
(*   SpecEngine   apply_change and revert_change as functions of a         *)
(*                document and a change, over bounded documents/changes;   *)
(*   Spec         the server with three clients and two documents;         *)
(*   SpecHistory  the server with two clients and one document and a       *)
(*                longer change history (undo and redo).                   *)
(* In Spec and SpecHistory one action is one inbound message handled to    *)
(* completion (handle_message and everything it calls).                    *)
(***************************************************************************)
EXTENDS Integers, Sequences, FiniteSets, TLC

VARIABLES
  clients,             \* self.clients: the registered client ids
  broken,              \* registered clients whose websocket.send raises
  file_sessions,       \* self.file_sessions: filename -> member ids, in dict order
  client_files,        \* self.client_files: client id -> set of filenames
  change_history,      \* self.change_history: filename -> list of changes
  file_data,           \* self.file_data: filename -> document, or NotLoaded
  operation_logs,      \* self.operation_logs: filename -> list of operations
  operation_sequences, \* self.operation_sequences: filename -> last sequence
  disk,                \* saved_files/<filename>: the stored document, or NoFile
  now,                 \* the reading of datetime.now()
  loads,               \* filename -> number of load_file_data calls so far
  saves,               \* filenames whose save was attempted by the last handler
  sent,                \* the sends of the last handler, in order: [to, msg, ok]
  last,                \* the inbound message (or connection event) handled last
  eng,                 \* SpecEngine: [phase, doc0, doc, ch0, ch]
  tasks,               \* SpecTasks: client id -> its handler suspended in an await
  received,            \* SpecTasks: filename -> the changes in order of receipt
  applied,             \* SpecTasks: filename -> the changes in order of apply
  delivered            \* SpecTasks: client id -> the changes sent to it, in order

vars == <<clients, broken, file_sessions, client_files, change_history, file_data,
          operation_logs, operation_sequences, disk, now, loads, saves, sent, last, eng,
          tasks, received, applied, delivered>>

taskVars == <<tasks, received, applied, delivered>>

serverVars == <<clients, broken, file_sessions, client_files, change_history, file_data,
                operation_logs, operation_sequences, disk, now, loads, saves, sent, last,
                taskVars>>

----------------------------------------------------------------------------
(* JSON values as Python holds them: None, bool, int, list, dict.          *)

Null == [tag |-> "null"]

Bool(b) == [tag |-> "bool", b |-> b]

Num(n) == [tag |-> "num", n |-> n]

List(s) == [tag |-> "list", elems |-> s]

Dict(m) == [tag |-> "dict", entries |-> m]

IsDict(v) == v.tag = "dict"

IsList(v) == v.tag = "list"

(* A path segment or dict key: a str or an int (0 and "0" are different keys). *)
SKey(s) == [k |-> "str", s |-> s]

IKey(i) == [k |-> "int", i |-> i]

EmptyMap == [j \in {} |-> Null]

EmptyDict == Dict(EmptyMap)

(* d[k] = v on a dict's entries *)
Put(m, k, v) == [j \in DOMAIN m \cup {k} |-> IF j = k THEN v ELSE m[j]]

(* d.pop(k, None) on a dict's entries *)
Drop(m, k) == [j \in DOMAIN m \ {k} |-> m[j]]

(* dict.get(k): None when the key is absent *)
Get(m, k) == IF k \in DOMAIN m THEN m[k] ELSE Null

(* the strings of the model on which int(s) succeeds, with its result *)
StrInts == ("0" :> 0) @@ ("1" :> 1) @@ ("2" :> 2) @@ ("7" :> 7) @@ ("-1" :> (0 - 1))

(* str.isdigit() *)
IsDigit(s) == s \in {"0", "1", "2", "7"}

(* idx = int(key) if isinstance(key, str) else key; ok = FALSE is ValueError *)
ToIdx(key) ==
  IF key.k = "int" THEN [ok |-> TRUE, i |-> key.i]
  ELSE IF key.s \in DOMAIN StrInts THEN [ok |-> TRUE, i |-> StrInts[key.s]]
  ELSE [ok |-> FALSE, i |-> 0]

(* isinstance(next_key, int) or (isinstance(next_key, str) and next_key.isdigit()) *)
NumericLooking(key) == key.k = "int" \/ (key.k = "str" /\ IsDigit(key.s))

(* path.index(key) + 1, as a 1-based position: the segment after the FIRST *)
(* occurrence of key in the path                                           *)
NextKeyIdx(path, key) ==
  1 + (CHOOSE j \in 1..Len(path) : path[j] = key /\ \A m \in 1..(j - 1) : path[m] # key)

(* a plausible slip: every created container is a dict *)
CreatedAlwaysDict(path, key) == EmptyDict

(* lines 317-324: the container apply_change creates for an absent dict key *)
Created(path, key) ==
  LET n == NextKeyIdx(path, key) IN
  IF n <= Len(path)
  THEN (IF NumericLooking(path[n]) THEN List(<<>>) ELSE EmptyDict)
  ELSE EmptyDict

Min2(a, b) == IF a < b THEN a ELSE b

Max2(a, b) == IF a > b THEN a ELSE b

(* list.insert(i, v): a negative index counts from the end, both ends clamp *)
PyInsert(s, i, v) ==
  LET n == Len(s)
      j == IF i < 0 THEN Max2(i + n, 0) ELSE Min2(i, n)
  IN SubSeq(s, 1, j) \o <<v>> \o SubSeq(s, j + 1, n)

(* list.pop(i) for an int i: IndexError when out of range *)
PyPopOk(s, i) == LET j == IF i < 0 THEN i + Len(s) ELSE i IN 0 <= j /\ j < Len(s)

PyPop(s, i) ==
  LET j == IF i < 0 THEN i + Len(s) ELSE i
  IN SubSeq(s, 1, j) \o SubSeq(s, j + 2, Len(s))

(* a plausible slip: the range test starts at 1 *)
InRangeFromOne(s, i) == 1 <= i /\ i < Len(s)

InRange(s, i) == 0 <= i /\ i < Len(s)

----------------------------------------------------------------------------
(* apply_change.  A change is [type, path, value, hasOld, oldValue, ...];  *)
(* hasOld is 'oldValue' in change.                                         *)

LastKey(ch) == ch.path[Len(ch.path)]

(* lines 340-355: store the old value if not already stored *)
CaptureOld(target, ch) ==
  IF ch.hasOld THEN ch
  ELSE [ch EXCEPT !.hasOld = TRUE,
                  !.oldValue =
                     IF IsDict(target) THEN Get(target.entries, LastKey(ch))
                     ELSE IF IsList(target)
                          THEN LET c == ToIdx(LastKey(ch)) IN
                               IF c.ok /\ InRange(target.elems, c.i)
                               THEN target.elems[c.i + 1] ELSE Null
                          ELSE Null]

(* lines 357-391: apply by type on the container the path led to *)
ApplyLeaf(target, ch) ==
  LET key == LastKey(ch)
      c == ToIdx(key)
  IN
  CASE ch.type = "set" ->
         IF IsDict(target) THEN Dict(Put(target.entries, key, ch.value))
         ELSE IF IsList(target) /\ c.ok
              THEN (IF InRange(target.elems, c.i)
                    THEN List([target.elems EXCEPT ![c.i + 1] = ch.value])
                    ELSE List(Append(target.elems, ch.value)))
              ELSE target
    [] ch.type = "delete" ->
         IF IsDict(target) THEN Dict(Drop(target.entries, key))
         ELSE IF IsList(target) /\ c.ok /\ InRange(target.elems, c.i)
              THEN List(PyPop(target.elems, c.i))
              ELSE target
    [] ch.type = "add" ->
         IF IsList(target) THEN List(Append(target.elems, ch.value))
         ELSE IF IsDict(target) THEN Dict(Put(target.entries, key, ch.value))
              ELSE target
    [] ch.type = "insert" ->
         IF IsList(target) /\ c.ok THEN List(PyInsert(target.elems, c.i, ch.value))
         ELSE target
    [] OTHER -> target

(* lines 312-338 then the leaf: walk path[i..], creating absent dict keys. *)
(* status: "ok", or "aborted" (the navigation returned early)              *)
RECURSIVE ApplyWalk(_, _, _)
ApplyWalk(node, ch, i) ==
  IF i = Len(ch.path)
  THEN LET c2 == CaptureOld(node, ch) IN
       [node |-> ApplyLeaf(node, c2), ch |-> c2, status |-> "ok"]
  ELSE LET key == ch.path[i] IN
       IF IsDict(node)
       THEN LET child == IF key \in DOMAIN node.entries THEN node.entries[key]
                         ELSE Created(ch.path, key)
                r == ApplyWalk(child, ch, i + 1)
            IN [node |-> Dict(Put(node.entries, key, r.node)), ch |-> r.ch,
                status |-> r.status]
       ELSE IF IsList(node)
            THEN LET c == ToIdx(key) IN
                 IF c.ok /\ InRange(node.elems, c.i)
                 THEN LET r == ApplyWalk(node.elems[c.i + 1], ch, i + 1) IN
                      [node |-> List([node.elems EXCEPT ![c.i + 1] = r.node]),
                       ch |-> r.ch, status |-> r.status]
                 ELSE [node |-> node, ch |-> ch, status |-> "aborted"]
            ELSE [node |-> node, ch |-> ch, status |-> "aborted"]

(* a plausible slip: the change is recorded but the document is not touched *)
ApplyNothing(doc, ch) == [node |-> doc, ch |-> ch, status |-> "ok"]

(* a plausible slip: an aborted change is rolled back, the containers it   *)
(* created are removed again                                               *)
ApplyChangeRollsBack(doc, ch) ==
  IF Len(ch.path) = 0 THEN [node |-> doc, ch |-> ch, status |-> "raised"]
  ELSE LET r == ApplyWalk(doc, ch, 1) IN
       IF r.status = "aborted" THEN [r EXCEPT !.node = doc] ELSE r

(* apply_change on a loaded document; "raised": path[-1] on an empty path  *)
(* raises IndexError, which apply_change does not catch                    *)
ApplyChange(doc, ch) ==
  IF Len(ch.path) = 0 THEN [node |-> doc, ch |-> ch, status |-> "raised"]
  ELSE ApplyWalk(doc, ch, 1)

----------------------------------------------------------------------------
(* revert_change.  status "raised": an exception revert_change lets escape. *)

OldOf(ch) == IF ch.hasOld THEN ch.oldValue ELSE Null

(* a plausible slip: the revert of add removes at the recorded index *)
RevertAddByIndex(elems, ch) ==
  LET c == ToIdx(LastKey(ch)) IN
  IF c.ok /\ InRange(elems, c.i) THEN PyPop(elems, c.i) ELSE elems

(* lines 431-433: the revert of add on a list pops the last element *)
RevertAddOnList(elems, ch) ==
  IF Len(elems) > 0 THEN SubSeq(elems, 1, Len(elems) - 1) ELSE elems

(* lines 422-455: revert by type on the container the path led to *)
RevertLeaf(target, ch) ==
  LET key == LastKey(ch)
      c == ToIdx(key)
      old == OldOf(ch)
      same == [node |-> target, status |-> "ok"]
  IN
  CASE ch.type \in {"set", "add"} ->
         IF IsDict(target)
         THEN [node |-> IF old = Null THEN Dict(Drop(target.entries, key))
                        ELSE Dict(Put(target.entries, key, old)),
               status |-> "ok"]
         ELSE IF IsList(target)
              THEN (IF ch.type = "add"
                    THEN [node |-> List(RevertAddOnList(target.elems, ch)), status |-> "ok"]
                    ELSE [node |-> IF c.ok /\ InRange(target.elems, c.i)
                                   THEN List([target.elems EXCEPT ![c.i + 1] = old])
                                   ELSE target,
                          status |-> "ok"])
              ELSE same
    [] ch.type = "delete" ->
         IF IsDict(target)
         THEN [node |-> IF old # Null THEN Dict(Put(target.entries, key, old)) ELSE target,
               status |-> "ok"]
         ELSE IF IsList(target)
              THEN \* lines 446-451, inside the try
                   LET s1 == IF c.ok /\ old # Null
                             THEN PyInsert(target.elems, c.i, old) ELSE target.elems
                   IN \* line 452, after the try: target.insert(path[-1], old_value)
                   IF key.k = "int"
                   THEN [node |-> List(PyInsert(s1, key.i, old)), status |-> "ok"]
                   ELSE [node |-> List(s1), status |-> "raised"]
              ELSE same
    [] ch.type = "insert" ->
         IF IsList(target)
         THEN \* line 455: target.pop(path[-1])
              (IF key.k = "int" /\ PyPopOk(target.elems, key.i)
               THEN [node |-> List(PyPop(target.elems, key.i)), status |-> "ok"]
               ELSE [node |-> target, status |-> "raised"])
         ELSE same
    [] OTHER -> same

(* lines 402-420 then the leaf: re-walk the path, creating nothing *)
RECURSIVE RevertWalk(_, _, _)
RevertWalk(node, ch, i) ==
  IF i = Len(ch.path) THEN RevertLeaf(node, ch)
  ELSE LET key == ch.path[i] IN
       IF IsDict(node)
       THEN (IF key \in DOMAIN node.entries
             THEN LET r == RevertWalk(node.entries[key], ch, i + 1) IN
                  [node |-> Dict(Put(node.entries, key, r.node)), status |-> r.status]
             ELSE [node |-> node, status |-> "ok"])
       ELSE IF IsList(node)
            THEN LET c == ToIdx(key) IN
                 IF c.ok /\ InRange(node.elems, c.i)
                 THEN LET r == RevertWalk(node.elems[c.i + 1], ch, i + 1) IN
                      [node |-> List([node.elems EXCEPT ![c.i + 1] = r.node]),
                       status |-> r.status]
                 ELSE [node |-> node, status |-> "ok"]
            ELSE [node |-> node, status |-> "ok"]

(* revert_change on a loaded document *)
RevertChange(doc, ch) ==
  IF Len(ch.path) = 0 THEN [node |-> doc, status |-> "raised"]
  ELSE RevertWalk(doc, ch, 1)

(* the container the path[:-1] walk ends in, or Null when it does not get there *)
RECURSIVE TargetOf(_, _, _)
TargetOf(node, path, i) ==
  IF i >= Len(path) THEN node
  ELSE IF IsDict(node)
       THEN (IF path[i] \in DOMAIN node.entries
             THEN TargetOf(node.entries[path[i]], path, i + 1) ELSE Null)
       ELSE IF IsList(node)
            THEN LET c == ToIdx(path[i]) IN
                 IF c.ok /\ InRange(node.elems, c.i)
                 THEN TargetOf(node.elems[c.i + 1], path, i + 1) ELSE Null
            ELSE Null

----------------------------------------------------------------------------
(* The server's universe.                                                  *)

Clients == {"c1", "c2", "c3"}

Files == {"f1", "f2"}

(* a filename that is missing or empty: `not filename` *)
NoName == ""

(* filename not in self.file_data *)
NotLoaded == [tag |-> "notloaded"]

(* no saved_files/<filename> on disk *)
NoFile == [tag |-> "nofile"]

(* a message field that is absent *)
Absent == [tag |-> "absent"]

(* exclude_client_id = None *)
NoOne == "none"

(* no timestamp given, no changeId given *)
NoTs == 0 - 1

NoId == <<"", 0>>

TsKey == SKey("_lastSyncTimestamp")

(* the bounds of the model *)
MaxClock == 2

MaxChanges == 1

MaxHistChanges == 2

MaxBroken == 1

MaxItems == 2

(* the changes the one client of SpecLong sends: past the history limit *)
MaxPathChanges == 2

MaxTaskChanges == 2

MaxLongChanges == 1002

(* the program's constants *)
HistorySlice == 50

OperationSlice == 100

HistoryLimit == 1000

MsPerSecond == 1000

(* datetime.now().timestamp() * 1000 *)
NowMs == now * MsPerSecond

(* a plausible slip: s[:n], the oldest n *)
FirstN(s, n) == SubSeq(s, 1, IF Len(s) < n THEN Len(s) ELSE n)

(* s[-n:] *)
LastN(s, n) == SubSeq(s, Max2(1, Len(s) - n + 1), Len(s))

(* Python truthiness of a JSON value: `not v` *)
Falsy(v) ==
  \/ v = Absent
  \/ v = Null
  \/ v = Bool(FALSE)
  \/ v = Num(0)
  \/ v = List(<<>>)
  \/ v = EmptyDict

(* the members of a session list *)
Range(s) == {s[i] : i \in 1..Len(s)}

Members(f) == IF f \in DOMAIN file_sessions THEN Range(file_sessions[f]) ELSE {}

(* an inbound message, every field present (Absent / NoName when not given) *)
Inbound(type, c, f) ==
  [type |-> type, client |-> c, filename |-> f, change |-> Absent, data |-> Absent,
   timestamp |-> NoTs, changeId |-> NoId]

----------------------------------------------------------------------------
(* send_to_client and broadcast_to_file.  A send record is [to, msg, ok]:  *)
(* ok = FALSE is a send that raised and was logged (lines 492-495).        *)

SendToClient(c, msg) ==
  IF c \in clients THEN <<[to |-> c, msg |-> msg, ok |-> c \notin broken]>> ELSE <<>>

RECURSIVE BroadcastOver(_, _, _)
BroadcastOver(members, exclude, msg) ==
  IF members = <<>> THEN <<>>
  ELSE (IF Head(members) # exclude THEN SendToClient(Head(members), msg) ELSE <<>>)
       \o BroadcastOver(Tail(members), exclude, msg)

(* a plausible slip: the origin is not excluded *)
BroadcastNoExclude(fs, f, exclude, msg) ==
  IF f \notin DOMAIN fs THEN <<>>
  ELSE BroadcastOver(fs[f], NoOne, msg)

(* a plausible slip: the exception of a failed send escapes send_to_client *)
(* and ends the loop of broadcast_to_file                                  *)
BroadcastStopsAtFailure(fs, f, exclude, msg) ==
  IF f \notin DOMAIN fs THEN <<>>
  ELSE LET all == BroadcastOver(fs[f], exclude, msg)
           failed == {i \in 1..Len(all) : ~all[i].ok}
       IN IF failed = {} THEN all
          ELSE SubSeq(all, 1, CHOOSE i \in failed : \A j \in failed : i <= j)

(* broadcast_to_file over the session table fs; exclude = NoOne is None *)
BroadcastToFile(fs, f, exclude, msg) ==
  IF f \notin DOMAIN fs THEN <<>>
  ELSE BroadcastOver(fs[f], exclude, msg)

----------------------------------------------------------------------------
(* The Document Store: load_file_data and save_file_data.                  *)

(* lines 457-471: the stored document, or {} when there is no file *)
LoadFileData(f) == IF disk[f] = NoFile THEN EmptyDict ELSE disk[f]

(* lines 473-487: the disk after save_file_data(f) on cache fd; ok = FALSE *)
(* is a write that raised and was logged                                   *)
SaveFileData(fd, f, ok) ==
  IF fd[f] # NotLoaded /\ ok THEN [disk EXCEPT ![f] = fd[f]] ELSE disk

(* the files save_file_data tried to write *)
SaveAttempt(fd, f) == IF fd[f] # NotLoaded THEN {f} ELSE {}

----------------------------------------------------------------------------
(* Connections: register_client and unregister_client.                     *)

(* lines 24-37: a new connection is registered and greeted *)
Connect(c) ==
  /\ c \notin clients
  /\ clients' = clients \cup {c}
  /\ sent' = <<[to |-> c, msg |-> [type |-> "connected", clientId |-> c], ok |-> TRUE]>>
  /\ last' = Inbound("connect", c, NoName)
  /\ saves' = {}
  /\ UNCHANGED <<broken, file_sessions, client_files, change_history, file_data,
                 operation_logs, operation_sequences, disk, now, loads, eng, taskVars>>

(* a registered client's socket starts to fail: send raises from now on *)
Break(c) ==
  /\ c \in clients \ broken
  /\ Cardinality(broken) < MaxBroken
  /\ broken' = broken \cup {c}
  /\ sent' = <<>>
  /\ last' = Inbound("break", c, NoName)
  /\ saves' = {}
  /\ UNCHANGED <<clients, file_sessions, client_files, change_history, file_data,
                 operation_logs, operation_sequences, disk, now, loads, eng, taskVars>>

(* a plausible slip: a session that has become empty keeps its key *)
RemoveMemberKeepsKey(fs, f, c) ==
  IF f \in DOMAIN fs THEN Put(fs, f, SelectSeq(fs[f], LAMBDA m : m # c)) ELSE fs

(* lines 56-61 for one filename: drop c from its session, drop an empty session *)
RemoveMember(fs, f, c) ==
  IF f \in DOMAIN fs
  THEN LET rest == SelectSeq(fs[f], LAMBDA m : m # c) IN
       IF rest = <<>> THEN Drop(fs, f) ELSE Put(fs, f, rest)
  ELSE fs

RECURSIVE RemoveFromAll(_, _, _)
RemoveFromAll(fs, fileset, c) ==
  IF fileset = {} THEN fs
  ELSE LET f == CHOOSE g \in fileset : TRUE IN
       RemoveFromAll(RemoveMember(fs, f, c), fileset \ {f}, c)

(* a plausible slip: the sessions are left as they are *)
UnregisterNothing(c) == file_sessions

(* lines 50-64: unregister_client *)
UnregisterSessions(c) == RemoveFromAll(file_sessions, client_files[c], c)

(* a plausible slip: the cleanup takes the client's changes back out of    *)
(* the histories                                                           *)
DisconnectDropsChanges(c) ==
  /\ c \in clients
  /\ clients' = clients \ {c}
  /\ broken' = broken \ {c}
  /\ file_sessions' = UnregisterSessions(c)
  /\ client_files' = [client_files EXCEPT ![c] = {}]
  /\ change_history' =
       [f \in Files |-> SelectSeq(change_history[f], LAMBDA e : e.clientId # c)]
  /\ sent' = <<>>
  /\ last' = Inbound("disconnect", c, NoName)
  /\ saves' = {}
  /\ UNCHANGED <<file_data, operation_logs, operation_sequences,
                 disk, now, loads, eng, taskVars>>

Disconnect(c) ==
  /\ c \in clients
  /\ clients' = clients \ {c}
  /\ broken' = broken \ {c}
  /\ file_sessions' = UnregisterSessions(c)
  /\ client_files' = [client_files EXCEPT ![c] = {}]
  /\ sent' = <<>>
  /\ last' = Inbound("disconnect", c, NoName)
  /\ saves' = {}
  /\ UNCHANGED <<change_history, file_data, operation_logs, operation_sequences,
                 disk, now, loads, eng, taskVars>>

(* datetime.now() moves on *)
Tick ==
  /\ now < MaxClock
  /\ now' = now + 1
  /\ sent' = <<>>
  /\ last' = Inbound("tick", NoOne, NoName)
  /\ saves' = {}
  /\ UNCHANGED <<clients, broken, file_sessions, client_files, change_history, file_data,
                 operation_logs, operation_sequences, disk, loads, eng, taskVars>>

----------------------------------------------------------------------------
(* handle_join_file and handle_leave_file.                                 *)

(* a plausible slip: the session is started anew with the joiner alone *)
JoinSessionsAnew(c, f) == Put(file_sessions, f, <<c>>)

(* lines 101-105: the session table after c joins f *)
JoinSessions(c, f) ==
  LET fs1 == IF f \in DOMAIN file_sessions THEN file_sessions
             ELSE Put(file_sessions, f, <<>>)
  IN Put(fs1, f, IF c \in Range(fs1[f]) THEN fs1[f] ELSE Append(fs1[f], c))

(* a plausible slip: every join loads from the Document Store *)
JoinAlwaysLoads(f) == TRUE

(* lines 111-113: load only when the filename is not cached *)
JoinNeedsLoad(f) == file_data[f] = NotLoaded

(* lines 119-127: the file_joined reply, from the cache fd *)
FileJoined(fd, f) ==
  [type |-> "file_joined",
   filename |-> f,
   data |-> fd[f],
   timestamp |-> IF TsKey \in DOMAIN fd[f].entries THEN fd[f].entries[TsKey]
                 ELSE Num(NowMs),
   history |-> LastN(change_history[f], HistorySlice),
   lastOperationSequence |-> operation_sequences[f]]

(* lines 129-139: the catch-up reply, when the operation log is not empty *)
OperationsResponse(c, f) ==
  IF Len(operation_logs[f]) > 0
  THEN SendToClient(c, [type |-> "operations_response", filename |-> f,
                        operations |-> LastN(operation_logs[f], OperationSlice),
                        lastSequence |-> operation_sequences[f]])
  ELSE <<>>

HandleJoinFile(c, f) ==
  /\ c \in clients
  /\ last' = Inbound("join_file", c, f)
  /\ saves' = {}
  /\ IF f = NoName
     THEN /\ sent' = <<>>
          /\ UNCHANGED <<file_sessions, client_files, file_data, loads>>
     ELSE LET fs == JoinSessions(c, f)
              fd == IF JoinNeedsLoad(f) THEN [file_data EXCEPT ![f] = LoadFileData(f)]
                    ELSE file_data
          IN /\ file_sessions' = fs
             /\ client_files' = [client_files EXCEPT ![c] = @ \cup {f}]
             /\ file_data' = fd
             /\ loads' = IF JoinNeedsLoad(f) THEN [loads EXCEPT ![f] = @ + 1] ELSE loads
             /\ sent' = SendToClient(c, FileJoined(fd, f))
                        \o OperationsResponse(c, f)
                        \o BroadcastToFile(fs, f, c,
                             [type |-> "client_joined", clientId |-> c, filename |-> f])
  /\ UNCHANGED <<clients, broken, change_history, operation_logs, operation_sequences,
                 disk, now, eng, taskVars>>

(* a plausible slip: the member is not removed *)
LeaveNothing(c, f) == file_sessions

(* lines 150-158: the session table after c leaves f *)
LeaveSessions(c, f) ==
  IF f # NoName /\ f \in DOMAIN file_sessions THEN RemoveMember(file_sessions, f, c)
  ELSE file_sessions

HandleLeaveFile(c, f) ==
  /\ c \in clients
  /\ last' = Inbound("leave_file", c, f)
  /\ saves' = {}
  /\ file_sessions' = LeaveSessions(c, f)
  /\ client_files' = [client_files EXCEPT ![c] = @ \ {f}]
  /\ sent' = BroadcastToFile(LeaveSessions(c, f), f, c,
               [type |-> "client_left", clientId |-> c, filename |-> f])
  /\ UNCHANGED <<clients, broken, change_history, file_data, operation_logs,
                 operation_sequences, disk, now, loads, eng, taskVars>>

----------------------------------------------------------------------------
(* handle_full_sync.                                                       *)

(* line 177: self.file_data.get(filename, {}).get('_lastSyncTimestamp', 0) *)
CurrentTimestamp(f) ==
  IF file_data[f] = NotLoaded THEN Num(0)
  ELSE IF TsKey \in DOMAIN file_data[f].entries THEN file_data[f].entries[TsKey]
       ELSE Num(0)

(* line 171: the given timestamp, or the clock's *)
SyncTimestamp(ts) == IF ts = NoTs THEN NowMs ELSE ts

(* line 173: the early return *)
SyncRejected(f, data) == f = NoName \/ Falsy(data)

(* a plausible slip: the timestamps are not compared at all *)
SyncNeverStale(f, t) == FALSE

(* line 178: the stale test; a cached timestamp that is no number makes    *)
(* the comparison raise TypeError                                          *)
SyncStale(f, t) == CurrentTimestamp(f).tag = "num" /\ t < CurrentTimestamp(f).n

SyncRaises(f, data) == CurrentTimestamp(f).tag # "num" \/ ~IsDict(data)

HandleFullSync(c, f, data, ts, ok) ==
  /\ c \in clients
  /\ last' = [Inbound("full_sync", c, f) EXCEPT !.data = data, !.timestamp = ts]
  /\ IF SyncRejected(f, data) \/ SyncRaises(f, data) \/ SyncStale(f, SyncTimestamp(ts))
     THEN /\ sent' = <<>>
          /\ saves' = {}
          /\ UNCHANGED <<file_data, disk>>
     ELSE LET t == SyncTimestamp(ts)
              doc == Dict(Put(data.entries, TsKey, Num(t)))
              fd == [file_data EXCEPT ![f] = doc]
          IN /\ file_data' = fd
             /\ sent' = BroadcastToFile(file_sessions, f, c,
                          [type |-> "full_sync", filename |-> f, data |-> doc,
                           timestamp |-> t, clientId |-> c])
             /\ saves' = SaveAttempt(fd, f)
             /\ disk' = SaveFileData(fd, f, ok)
  /\ UNCHANGED <<clients, broken, file_sessions, client_files, change_history,
                 operation_logs, operation_sequences, now, loads, eng, taskVars>>

----------------------------------------------------------------------------
(* handle_change, handle_undo, handle_redo, handle_get_history.            *)

(* an inbound change: the fields a client gives *)
ChangeIn(type, path, value) ==
  [type |-> type, path |-> path, value |-> value, hasOld |-> FALSE, oldValue |-> Null,
   timestamp |-> 0, clientId |-> NoOne, changeId |-> NoId, undone |-> FALSE,
   undoneAt |-> 0]

(* lines 206-209: the server stamps the change *)
Stamp(ch, c) ==
  [ch EXCEPT !.timestamp = now, !.clientId = c, !.changeId = <<c, now>>]

(* a plausible slip: undone entries are purged when a change is appended *)
AppendDropsUndone(hist, ch) ==
  LET kept == Append(SelectSeq(hist, LAMBDA e : ~e.undone), ch) IN
  SubSeq(kept, IF Len(kept) > HistoryLimit THEN Len(kept) - HistoryLimit + 1 ELSE 1,
         Len(kept))

(* a plausible slip: the history is cut to its first 1000, not its last *)
AppendKeepOldest(hist, ch) ==
  SubSeq(Append(hist, ch), 1, IF Len(hist) + 1 < HistoryLimit THEN Len(hist) + 1
                              ELSE HistoryLimit)

(* lines 214-221: append, then keep the last 1000 *)
AppendHistory(hist, ch) == LastN(Append(hist, ch), HistoryLimit)

HandleChange(c, f, chIn, ok) ==
  /\ c \in clients
  /\ last' = [Inbound("change", c, f) EXCEPT !.change = chIn]
  /\ IF f = NoName \/ chIn = Absent
     THEN /\ sent' = <<>>
          /\ saves' = {}
          /\ UNCHANGED <<change_history, file_data, disk, loads>>
     ELSE LET ch == Stamp(chIn, c)
              load == file_data[f] = NotLoaded
              r == ApplyChange(IF load THEN LoadFileData(f) ELSE file_data[f], ch)
              fd == [file_data EXCEPT ![f] = r.node]
          IN /\ file_data' = fd
             /\ loads' = IF load THEN [loads EXCEPT ![f] = @ + 1] ELSE loads
             /\ IF r.status = "raised"
                THEN /\ sent' = <<>>
                     /\ saves' = {}
                     /\ UNCHANGED <<change_history, disk>>
                ELSE /\ change_history' =
                          [change_history EXCEPT ![f] = AppendHistory(@, r.ch)]
                     /\ sent' = BroadcastToFile(file_sessions, f, c,
                                  [type |-> "change", filename |-> f, change |-> r.ch])
                     /\ saves' = SaveAttempt(fd, f)
                     /\ disk' = SaveFileData(fd, f, ok)
  /\ UNCHANGED <<clients, broken, file_sessions, client_files, operation_logs,
                 operation_sequences, now, eng, taskVars>>

(* a plausible slip: the author is not compared *)
UndoTargetAnyAuthor(hist, c) ==
  LET own == {i \in 1..Len(hist) : ~hist[i].undone} IN
  IF own = {} THEN 0 ELSE CHOOSE i \in own : \A j \in own : j <= i

(* lines 243-246: the newest entry of c that is not undone, or 0 *)
UndoTarget(hist, c) ==
  LET own == {i \in 1..Len(hist) : hist[i].clientId = c /\ ~hist[i].undone} IN
  IF own = {} THEN 0 ELSE CHOOSE i \in own : \A j \in own : j <= i

HandleUndo(c, f, ok) ==
  /\ c \in clients
  /\ last' = Inbound("undo", c, f)
  /\ LET i == IF f = NoName THEN 0 ELSE UndoTarget(change_history[f], c) IN
     IF i = 0
     THEN /\ sent' = <<>>
          /\ saves' = {}
          /\ UNCHANGED <<change_history, file_data, disk>>
     ELSE LET ch == [change_history[f][i] EXCEPT !.undone = TRUE, !.undoneAt = now]
              r == IF file_data[f] = NotLoaded
                   THEN [node |-> NotLoaded, status |-> "ok"]
                   ELSE RevertChange(file_data[f], ch)
              fd == [file_data EXCEPT ![f] = r.node]
          IN /\ change_history' = [change_history EXCEPT ![f][i] = ch]
             /\ file_data' = fd
             /\ IF r.status = "raised"
                THEN /\ sent' = <<>>
                     /\ saves' = {}
                     /\ UNCHANGED disk
                ELSE /\ sent' = BroadcastToFile(file_sessions, f, NoOne,
                                  [type |-> "undo", filename |-> f,
                                   changeId |-> ch.changeId])
                     /\ saves' = SaveAttempt(fd, f)
                     /\ disk' = SaveFileData(fd, f, ok)
  /\ UNCHANGED <<clients, broken, file_sessions, client_files, operation_logs,
                 operation_sequences, now, loads, eng, taskVars>>

(* a plausible slip: the undone flag is not tested *)
RedoTargetAnyFlag(hist, id) ==
  LET hit == {i \in 1..Len(hist) : hist[i].changeId = id} IN
  IF hit = {} THEN 0 ELSE CHOOSE i \in hit : \A j \in hit : j <= i

(* lines 272-274: the newest entry with that changeId that is undone, or 0 *)
RedoTarget(hist, id) ==
  LET hit == {i \in 1..Len(hist) : hist[i].changeId = id /\ hist[i].undone} IN
  IF hit = {} THEN 0 ELSE CHOOSE i \in hit : \A j \in hit : j <= i

HandleRedo(c, f, id, ok) ==
  /\ c \in clients
  /\ last' = [Inbound("redo", c, f) EXCEPT !.changeId = id]
  /\ LET i == IF f = NoName THEN 0 ELSE RedoTarget(change_history[f], id) IN
     IF i = 0
     THEN /\ sent' = <<>>
          /\ saves' = {}
          /\ UNCHANGED <<change_history, file_data, disk, loads>>
     ELSE LET ch == [change_history[f][i] EXCEPT !.undone = FALSE, !.undoneAt = 0]
              load == file_data[f] = NotLoaded
              r == ApplyChange(IF load THEN LoadFileData(f) ELSE file_data[f], ch)
              fd == [file_data EXCEPT ![f] = r.node]
          IN /\ change_history' = [change_history EXCEPT ![f][i] = r.ch]
             /\ file_data' = fd
             /\ loads' = IF load THEN [loads EXCEPT ![f] = @ + 1] ELSE loads
             /\ sent' = BroadcastToFile(file_sessions, f, NoOne,
                          [type |-> "redo", filename |-> f, changeId |-> ch.changeId])
             /\ saves' = SaveAttempt(fd, f)
             /\ disk' = SaveFileData(fd, f, ok)
  /\ UNCHANGED <<clients, broken, file_sessions, client_files, operation_logs,
                 operation_sequences, now, eng, taskVars>>

(* lines 292-300 *)
HandleGetHistory(c, f) ==
  /\ c \in clients
  /\ last' = Inbound("get_history", c, f)
  /\ saves' = {}
  /\ sent' = IF f # NoName /\ Len(change_history[f]) > 0
             THEN SendToClient(c, [type |-> "history", filename |-> f,
                                   history |-> change_history[f]])
             ELSE <<>>
  /\ UNCHANGED <<clients, broken, file_sessions, client_files, change_history, file_data,
                 operation_logs, operation_sequences, disk, now, loads, eng, taskVars>>

(* lines 66-93: a message handle_message drops: invalid JSON, an unknown    *)
(* type, or operation_sync / request_operations, whose handlers SyncServer *)
(* does not define (AttributeError, caught at line 92)                     *)
DroppedTypes == {"invalid_json", "unknown", "operation_sync", "request_operations"}

(* a plausible slip: the exception escapes handle_message, so the loop of  *)
(* register_client ends and its finally clause unregisters the client     *)
HandleDroppedCloses(c, type) ==
  /\ c \in clients
  /\ type \in DroppedTypes
  /\ last' = Inbound(type, c, NoName)
  /\ saves' = {}
  /\ sent' = <<>>
  /\ clients' = clients \ {c}
  /\ broken' = broken \ {c}
  /\ file_sessions' = UnregisterSessions(c)
  /\ client_files' = [client_files EXCEPT ![c] = {}]
  /\ UNCHANGED <<change_history, file_data, operation_logs, operation_sequences,
                 disk, now, loads, eng, taskVars>>

HandleDropped(c, type) ==
  /\ c \in clients
  /\ type \in DroppedTypes
  /\ last' = Inbound(type, c, NoName)
  /\ saves' = {}
  /\ sent' = <<>>
  /\ UNCHANGED <<clients, broken, file_sessions, client_files, change_history, file_data,
                 operation_logs, operation_sequences, disk, now, loads, eng, taskVars>>

----------------------------------------------------------------------------
(* The change engine alone: one document, one change, apply then revert.   *)

EngIdle ==
  [phase |-> "idle", doc0 |-> Null, doc |-> Null, ch0 |-> Absent, ch |-> Absent,
   status |-> "none"]

MapOf1(k1, v1) == Dict(Put(EmptyMap, SKey(k1), v1))

MapOf2(k1, v1, k2, v2) == Dict(Put(Put(EmptyMap, SKey(k1), v1), SKey(k2), v2))

(* the documents the engine is tried on *)
EngDocs ==
  { EmptyDict,
    MapOf1("a", Null),
    MapOf1("a", Num(1)),
    MapOf1("items", List(<<>>)),
    MapOf1("items", List(<<Num(1), Num(2)>>)),
    MapOf2("items", List(<<MapOf1("done", Bool(FALSE))>>), "a", MapOf1("b", Null)) }

(* the paths: str and int segments, in and out of range, repeated segments *)
EngPaths ==
  { <<>>,
    <<SKey("a")>>,
    <<SKey("a"), SKey("b")>>,
    <<SKey("items"), SKey("0")>>,
    <<SKey("items"), IKey(1)>>,
    <<SKey("items"), SKey("7")>>,
    <<SKey("items"), SKey("x")>>,
    <<SKey("items"), SKey("0"), SKey("done")>>,
    <<SKey("a"), SKey("a"), SKey("0")>> }

EngValues == {Bool(TRUE), Null, Num(5)}

EngTypes == {"set", "add", "delete", "insert"}

(* oldValue as the client gives it: not at all, or some value *)
EngOlds == {Absent, Num(9)}

EngChanges ==
  { [ChangeIn(t, p, v) EXCEPT !.hasOld = (o # Absent),
                              !.oldValue = IF o = Absent THEN Null ELSE o] :
      t \in EngTypes, p \in EngPaths, v \in EngValues, o \in EngOlds }

(* a connection whose message loop waits for the next message (line 39) *)
TaskIdle ==
  [pc |-> "idle", file |-> NoName, ch |-> Absent, todo |-> <<>>, msg |-> Absent,
   size |-> 0]

InitServer ==
  /\ clients = {}
  /\ broken = {}
  /\ file_sessions = EmptyMap
  /\ client_files = [c \in Clients |-> {}]
  /\ change_history = [f \in Files |-> <<>>]
  /\ file_data = [f \in Files |-> NotLoaded]
  /\ operation_logs = [f \in Files |-> <<>>]
  /\ operation_sequences = [f \in Files |-> 0]
  /\ disk = [f \in Files |-> IF f = "f2" THEN MapOf2("a", Num(1), "_lastSyncTimestamp", Num(1000))
                             ELSE NoFile]
  /\ now = 1
  /\ loads = [f \in Files |-> 0]
  /\ saves = {}
  /\ sent = <<>>
  /\ last = Inbound("init", NoOne, NoName)
  /\ tasks = [c \in Clients |-> TaskIdle]
  /\ received = [f \in Files |-> <<>>]
  /\ applied = [f \in Files |-> <<>>]
  /\ delivered = [c \in Clients |-> <<>>]

InitEngine ==
  /\ InitServer
  /\ \E d \in EngDocs, ch \in EngChanges :
       eng = [phase |-> "input", doc0 |-> d, doc |-> d, ch0 |-> ch, ch |-> ch,
              status |-> "none"]

(* apply_change(doc, ch) *)
EngApply ==
  /\ eng.phase = "input"
  /\ LET r == ApplyChange(eng.doc, eng.ch) IN
     eng' = [eng EXCEPT !.phase = "applied", !.doc = r.node, !.ch = r.ch,
                        !.status = r.status]
  /\ UNCHANGED serverVars

(* revert_change(doc, ch) with the change as apply_change left it *)
EngRevert ==
  /\ eng.phase = "applied"
  /\ eng.status # "raised"
  /\ LET r == RevertChange(eng.doc, eng.ch) IN
     eng' = [eng EXCEPT !.phase = "reverted", !.doc = r.node, !.status = r.status]
  /\ UNCHANGED serverVars

NextEngine == EngApply \/ EngRevert

SpecEngine == InitEngine /\ [][NextEngine]_vars

(* the content at a path whose last container is a dict *)
ContentAt(doc, path) ==
  LET t == TargetOf(doc, path, 1) IN
  IF IsDict(t) /\ path[Len(path)] \in DOMAIN t.entries
  THEN <<"present", t.entries[path[Len(path)]]>>
  ELSE <<"absent", Null>>

EngPath == eng.ch0.path

EngTargetNow == TargetOf(eng.doc, EngPath, 1)

EngTargetBefore == TargetOf(eng.doc0, EngPath, 1)

(* the scenario of spec section 8: {} and set ["items", "0", "done"] = true *)
Scenario ==
  /\ eng.phase = "applied"
  /\ eng.doc0 = EmptyDict
  /\ eng.ch0.type = "set"
  /\ eng.ch0.path = <<SKey("items"), SKey("0"), SKey("done")>>
  /\ eng.ch0.value = Bool(TRUE)

(* C5, as stated: the scenario's change leaves the document               *)
(* {"items": [{"done": true}]}.                                            *)
C5_Scenario_Stated ==
  Scenario => eng.doc = MapOf1("items", List(<<MapOf1("done", Bool(TRUE))>>))

(* C5, amended: the scenario's change creates items as an empty Sequence   *)
(* and aborts at segment "0", an index out of range of that Sequence: the  *)
(* resulting document is {"items": []} and nothing is set.                 *)
C5_Scenario_Aborts ==
  Scenario => eng.doc = MapOf1("items", List(<<>>)) /\ eng.status = "aborted"

C5_Witness == Scenario /\ ~eng.ch0.hasOld

(* C6: for a Map target, apply(set) then revert of the same change (no     *)
(* oldValue given by the client) restores the prior content at the path:   *)
(* absent stays absent, null stays null, a value stays that value.         *)
C6_SetRevert_Restores ==
  ( /\ eng.phase = "reverted"
    /\ eng.ch0.type = "set"
    /\ ~eng.ch0.hasOld
    /\ IsDict(EngTargetNow) )
  => ContentAt(eng.doc, EngPath) = ContentAt(eng.doc0, EngPath)

(* the Sequence the add works on, before the apply: the list the path led  *)
(* to, or the empty list apply_change has just created                     *)
SeqBefore == IF IsList(EngTargetBefore) THEN EngTargetBefore.elems ELSE <<>>

AddOnSequence ==
  /\ eng.ch0.type = "add"
  /\ Len(EngPath) > 0
  /\ IsList(EngTargetNow)

(* C7: for a Sequence target, apply(add) appends the value and revert of   *)
(* the same change removes the last element, whatever the index in the     *)
(* path: the Sequence is again what it was before the apply.               *)
C7_AddRevert_PopsLast ==
  /\ (eng.phase = "applied" /\ AddOnSequence)
       => EngTargetNow.elems = Append(SeqBefore, eng.ch0.value)
  /\ (eng.phase = "reverted" /\ AddOnSequence)
       => EngTargetNow.elems = SeqBefore /\ eng.status = "ok"

(* an add reverted on a list of two whose path names index 7 *)
C7_Witness ==
  /\ eng.phase = "reverted"
  /\ AddOnSequence
  /\ Len(SeqBefore) = 2
  /\ LastKey(eng.ch0) = SKey("7")
  /\ EngTargetNow.elems = SeqBefore

----------------------------------------------------------------------------
(* The server.                                                             *)

Init == InitServer /\ eng = EngIdle

DocA == MapOf1("a", Num(1))

(* full_sync inputs: data absent, {}, a Map, a Sequence; timestamp absent or given *)
SyncData == {Absent, EmptyDict, DocA, List(<<Num(1)>>)}

SyncTimes == {NoTs, 0, 2000}

ChangeInputs == {ChangeIn("set", <<SKey("a")>>, Num(5))}

(* the changeIds a redo names: those in the history, and one no entry has *)
RedoIds(f) ==
  {change_history[f][i].changeId : i \in 1..Len(change_history[f])} \cup {<<"c1", 0>>}

(* Spec: every handler, two clients, one document; full_sync inputs vary *)
SpecClients == {"c1", "c2"}

SpecFiles == {"f1"}

Next ==
  \E c \in SpecClients :
       \/ Connect(c)
       \/ Disconnect(c)
       \/ HandleDropped(c, "unknown")
       \/ \E f \in SpecFiles :
            \/ HandleJoinFile(c, f)
            \/ HandleLeaveFile(c, f)
            \/ \E d \in SyncData, ts \in SyncTimes : HandleFullSync(c, f, d, ts, TRUE)
            \/ \E ch \in ChangeInputs, ok \in BOOLEAN :
                 Len(change_history[f]) < MaxChanges /\ HandleChange(c, f, ch, ok)
            \/ HandleUndo(c, f, TRUE)
            \/ \E id \in RedoIds(f) : HandleRedo(c, f, id, TRUE)
            \/ HandleGetHistory(c, f)

Spec == Init /\ [][Next]_vars

(* SpecSessions: the session registry and the broadcast router with three  *)
(* clients and two documents.  Only the handlers that write clients,       *)
(* file_sessions or client_files, and full_sync as a broadcasting handler: *)
(* no other handler writes those variables.                                *)
NextSessions ==
  \E c \in Clients :
    \/ Connect(c)
    \/ Break(c)
    \/ Disconnect(c)
    \/ \E f \in Files \cup {NoName} :
         \/ HandleJoinFile(c, f)
         \/ HandleLeaveFile(c, f)
    \/ \E f \in Files : HandleFullSync(c, f, DocA, NoTs, TRUE)

SpecSessions == Init /\ [][NextSessions]_vars

(* SpecHistory: the change history with undo and redo: two clients, one    *)
(* document, a clock that moves, changes on a Map leaf and on a Sequence.  *)
(* what each client edits: c1 sets a Map leaf, c2 inserts into a Sequence *)
HistChangeOf(c) ==
  IF c = "c1" THEN ChangeIn("set", <<SKey("a")>>, Num(5))
              ELSE ChangeIn("insert", <<SKey("items"), SKey("0")>>, Num(5))

(* the length of the document's "items" list, 0 when it has none *)
ItemsLen(doc) ==
  IF doc # NotLoaded /\ IsDict(doc) /\ SKey("items") \in DOMAIN doc.entries
     /\ IsList(doc.entries[SKey("items")])
  THEN Len(doc.entries[SKey("items")].elems) ELSE 0

NextHistory ==
  \/ Tick
  \/ \E c \in SpecClients :
       \/ Connect(c)
       \/ \E f \in SpecFiles :
            \/ HandleJoinFile(c, f)
            \/ /\ Len(change_history[f]) < MaxHistChanges
               /\ HandleChange(c, f, HistChangeOf(c), TRUE)
               /\ ItemsLen(file_data'[f]) <= MaxItems
            \/ HandleUndo(c, f, TRUE)
            \/ \E id \in RedoIds(f) :
                 HandleRedo(c, f, id, TRUE) /\ ItemsLen(file_data'[f]) <= MaxItems

SpecHistory == Init /\ [][NextHistory]_vars

----------------------------------------------------------------------------
(* Properties of the server.  `last` is the message the step handled, so   *)
(* an unprimed variable is the state the handler started in.               *)

(* the clients a message of this type was sent to by the last handler *)
RecipientsIn(s, type) == {s[i].to : i \in {j \in 1..Len(s) : s[j].msg.type = type}}

RecipientsOf(type) == RecipientsIn(sent, type)

MembersIn(fs, f) == IF f \in DOMAIN fs THEN Range(fs[f]) ELSE {}

CountOf(type) == Cardinality({j \in 1..Len(sent) : sent[j].msg.type = type})

(* the broadcast each handler of SpecSessions ends with *)
BroadcastTypeOf(type) ==
  CASE type = "join_file" -> "client_joined"
    [] type = "leave_file" -> "client_left"
    [] OTHER -> "full_sync"

Broadcasting ==
  /\ last.type \in {"join_file", "leave_file", "full_sync"}
  /\ last.filename # NoName

(* C1: a broadcast with origin X is sent once to every member of the       *)
(* document's session other than X, to nobody else and never to X; when X  *)
(* is the only member nothing is sent.                                     *)
C1_Broadcast_ExcludesOrigin ==
  Broadcasting =>
    LET type == BroadcastTypeOf(last.type) IN
    /\ RecipientsOf(type) = Members(last.filename) \ {last.client}
    /\ CountOf(type) = Cardinality(Members(last.filename) \ {last.client})
    /\ last.client \notin RecipientsOf(type)

(* a full_sync from one of three members reaches exactly the other two *)
C1_Witness ==
  /\ last.type = "full_sync"
  /\ Members(last.filename) = Clients
  /\ Cardinality(RecipientsOf("full_sync")) = 2

(* the timestamp a full_sync message carries, or the clock's when it has none *)
MsgTimestamp(m) == IF m.timestamp = NoTs THEN NowMs ELSE m.timestamp

(* the full_sync just handled was older than the cached document *)
StaleSync ==
  /\ last'.type = "full_sync"
  /\ last'.filename # NoName
  /\ CurrentTimestamp(last'.filename).tag = "num"
  /\ MsgTimestamp(last') < CurrentTimestamp(last'.filename).n

(* C2: a full_sync with a timestamp strictly below the cached              *)
(* lastSyncTimestamp leaves the cached document as it was and sends        *)
(* nothing.                                                                *)
C2_StaleSync_Dropped ==
  [][StaleSync => (file_data' = file_data /\ sent' = <<>>)]_vars

(* a full_sync of a Map with timestamp 0 was dropped on a document cached  *)
(* with a later timestamp, while another member was there to hear of it    *)
C2_Witness ==
  /\ last.type = "full_sync"
  /\ last.data = DocA
  /\ last.timestamp = 0
  /\ CurrentTimestamp("f1") = Num(1000)
  /\ Members("f1") \ {last.client} # {}
  /\ sent = <<>>

(* the full_sync just handled carries a Map and is not older than the cache *)
FreshSync ==
  /\ last'.type = "full_sync"
  /\ last'.filename # NoName
  /\ IsDict(last'.data)
  /\ CurrentTimestamp(last'.filename).tag = "num"
  /\ MsgTimestamp(last') >= CurrentTimestamp(last'.filename).n

(* C3: a full_sync of any Map, the empty Map included, with a timestamp    *)
(* not below the cached one replaces the cached document by the data,      *)
(* sets lastSyncTimestamp, is broadcast to the other members and saved.    *)
C3_FreshSync_Replaces ==
  [][FreshSync =>
       LET f == last'.filename
           doc == Dict(Put(last'.data.entries, TsKey, Num(MsgTimestamp(last'))))
       IN /\ file_data'[f] = doc
          /\ RecipientsIn(sent', "full_sync") = MembersIn(file_sessions', f) \ {last'.client}
          /\ \A i \in 1..Len(sent') :
               sent'[i].msg = [type |-> "full_sync", filename |-> f, data |-> doc,
                               timestamp |-> MsgTimestamp(last'), clientId |-> last'.client]
          /\ saves' = {f}]_vars

(* the join just handled is for a filename neither cached nor stored *)
JoinOfNew ==
  /\ last'.type = "join_file"
  /\ last'.filename # NoName
  /\ file_data[last'.filename] = NotLoaded
  /\ disk[last'.filename] = NoFile

(* the join just handled is for a filename that is cached *)
JoinOfCached ==
  /\ last'.type = "join_file"
  /\ last'.filename # NoName
  /\ file_data[last'.filename] # NotLoaded

(* C4: join_file on a filename never seen answers data = {} and            *)
(* lastOperationSequence = 0; a join_file on a cached filename answers the *)
(* cached value and loads nothing from the Document Store.                 *)
C4_Join_LoadsOnce ==
  [][ /\ JoinOfNew =>
           /\ sent'[1].to = last'.client
           /\ sent'[1].msg.type = "file_joined"
           /\ sent'[1].msg.data = EmptyDict
           /\ sent'[1].msg.lastOperationSequence = 0
      /\ JoinOfCached =>
           /\ sent'[1].to = last'.client
           /\ sent'[1].msg.type = "file_joined"
           /\ sent'[1].msg.data = file_data[last'.filename]
           /\ loads' = loads ]_vars

(* a second client joined a document whose cached value a full_sync had set *)
C4_Witness ==
  /\ last.type = "join_file"
  /\ last.filename = "f1"
  /\ Cardinality(Members("f1")) >= 2
  /\ loads["f1"] = 1
  /\ file_data["f1"] # EmptyDict
  /\ sent[1].msg.data = file_data["f1"]

----------------------------------------------------------------------------
(* Properties of undo and redo (SpecHistory).                              *)

(* the entries of hist that c wrote and that are not undone *)
OwnPending(hist, c) == {i \in 1..Len(hist) : hist[i].clientId = c /\ ~hist[i].undone}

(* the undo just handled found nothing of the requester to undo *)
UndoOfNothing ==
  /\ last'.type = "undo"
  /\ last'.filename # NoName
  /\ OwnPending(change_history[last'.filename], last'.client) = {}

(* C8: an undo by a client with no change of its own that is not undone is *)
(* a no-op: document, history and flags stay as they are, nothing is sent. *)
C8_Undo_NothingToUndo ==
  [][UndoOfNothing =>
       (file_data' = file_data /\ change_history' = change_history /\ sent' = <<>>)]_vars

(* an undo by a member while the history holds only the other client's     *)
(* changes, none undone: nothing was sent                                  *)
C8_Witness ==
  /\ last.type = "undo"
  /\ last.client \in Members("f1")
  /\ Len(change_history["f1"]) = 2
  /\ \A i \in 1..Len(change_history["f1"]) :
       change_history["f1"][i].clientId # last.client /\ ~change_history["f1"][i].undone
  /\ sent = <<>>

(* the undo just handled found a change of the requester to undo *)
UndoOfSomething ==
  /\ last'.type = "undo"
  /\ last'.filename # NoName
  /\ OwnPending(change_history[last'.filename], last'.client) # {}

(* C9: an undo marks undone exactly the requester's newest change that is  *)
(* not undone, every other entry keeps its flag, and undo{changeId} is     *)
(* sent to every member of the session, the requester included.            *)
C9_Undo_MarksNewest_Broadcasts ==
  [][UndoOfSomething =>
       LET f == last'.filename
           hist == change_history[f]
           own == OwnPending(hist, last'.client)
           i == CHOOSE k \in own : \A j \in own : j <= k
       IN /\ Len(change_history'[f]) = Len(hist)
          /\ change_history'[f][i].undone
          /\ \A j \in 1..Len(hist) : j # i => change_history'[f][j] = hist[j]
          /\ RecipientsIn(sent', "undo") = MembersIn(file_sessions, f)
          /\ \A k \in 1..Len(sent') :
               sent'[k].msg = [type |-> "undo", filename |-> f,
                               changeId |-> hist[i].changeId]]_vars

(* the redo just handled names no entry that is marked undone *)
RedoOfNothing ==
  /\ last'.type = "redo"
  /\ last'.filename # NoName
  /\ ~\E i \in 1..Len(change_history[last'.filename]) :
        /\ change_history[last'.filename][i].changeId = last'.changeId
        /\ change_history[last'.filename][i].undone

(* C10: a redo whose changeId no entry has, or whose entry is not marked   *)
(* undone, is a no-op: document and history stay as they are, nothing is   *)
(* sent.                                                                   *)
C10_Redo_NotUndone ==
  [][RedoOfNothing =>
       (file_data' = file_data /\ change_history' = change_history /\ sent' = <<>>)]_vars

(* a redo by a member named a change that is in the history, not undone:   *)
(* nothing was sent                                                        *)
C10_Witness ==
  /\ last.type = "redo"
  /\ last.client \in Members("f1")
  /\ \E i \in 1..Len(change_history["f1"]) :
       change_history["f1"][i].changeId = last.changeId
  /\ \A i \in 1..Len(change_history["f1"]) : ~change_history["f1"][i].undone
  /\ sent = <<>>

(* the undone entries the redo just handled names *)
RedoHits ==
  {i \in 1..Len(change_history[last'.filename]) :
     /\ change_history[last'.filename][i].changeId = last'.changeId
     /\ change_history[last'.filename][i].undone}

(* the redo just handled names an entry that is marked undone *)
RedoOfSomething ==
  /\ last'.type = "redo"
  /\ last'.filename # NoName
  /\ RedoHits # {}

(* the "items" list of a document, empty when it has none *)
ItemsOf(doc) ==
  IF ItemsLen(doc) > 0 THEN doc.entries[SKey("items")].elems ELSE <<>>

(* what re-applying ch to document before must leave in document after: a  *)
(* set leaves the value at the path, an insert at index 0 puts the value   *)
(* in front of the list                                                    *)
Reapplied(ch, before, after) ==
  IF ch.type = "set"
  THEN ContentAt(after, ch.path) = <<"present", ch.value>>
  ELSE ItemsOf(after) = <<ch.value>> \o ItemsOf(before)

(* C11: a redo by any client, the author or not, of an entry marked undone *)
(* clears that entry's flag and no other, applies the change to the        *)
(* document again, and sends redo{changeId} to every member of the         *)
(* session, the requester included.                                        *)
C11_Redo_AnyClient ==
  [][RedoOfSomething =>
       LET f == last'.filename
           hist == change_history[f]
           i == CHOOSE k \in RedoHits : \A j \in RedoHits : j <= k
       IN /\ Len(change_history'[f]) = Len(hist)
          /\ ~change_history'[f][i].undone
          /\ change_history'[f][i].changeId = hist[i].changeId
          /\ change_history'[f][i].value = hist[i].value
          /\ \A j \in 1..Len(hist) : j # i => change_history'[f][j] = hist[j]
          /\ Reapplied(hist[i], file_data[f], file_data'[f])
          /\ RecipientsIn(sent', "redo") = MembersIn(file_sessions, f)
          /\ \A k \in 1..Len(sent') :
               sent'[k].msg = [type |-> "redo", filename |-> f,
                               changeId |-> hist[i].changeId]]_vars

(* a member redid a change another client wrote and undid, and heard of it *)
C11_Witness ==
  /\ last.type = "redo"
  /\ last.client \in Members("f1")
  /\ \E i \in 1..Len(change_history["f1"]) :
       /\ change_history["f1"][i].changeId = last.changeId
       /\ change_history["f1"][i].clientId # last.client
       /\ ~change_history["f1"][i].undone
  /\ \E k \in 1..Len(sent) : sent[k].to = last.client /\ sent[k].msg.type = "redo"

----------------------------------------------------------------------------
(* SpecOperations: the operation log.  Two clients, one document, changes  *)
(* and the messages handle_message drops.                                  *)
NextOperations ==
  \E c \in SpecClients :
    \/ Connect(c)
    \/ \E t \in DroppedTypes : HandleDropped(c, t)
    \/ \E f \in SpecFiles :
         \/ HandleJoinFile(c, f)
         \/ \E ch \in ChangeInputs :
              Len(change_history[f]) < MaxChanges /\ HandleChange(c, f, ch, TRUE)

SpecOperations == Init /\ [][NextOperations]_vars

(* the change just handled was accepted: it is in the history *)
AcceptedChange ==
  /\ last'.type = "change"
  /\ last'.filename # NoName
  /\ Len(change_history'[last'.filename]) = Len(change_history[last'.filename]) + 1

(* C12: every accepted change is appended to the document's operation log  *)
(* with the next sequence number, and the sequence numbers of the log go   *)
(* up by one from each operation to the next.                              *)
C12_Change_Logged ==
  [][AcceptedChange =>
       LET f == last'.filename
           log == operation_logs'[f]
       IN /\ Len(log) = Len(operation_logs[f]) + 1
          /\ operation_sequences'[f] = operation_sequences[f] + 1
          /\ log[Len(log)].sequence = operation_sequences'[f]
          /\ \A i \in 1..(Len(log) - 1) : log[i + 1].sequence = log[i].sequence + 1]_vars

(* C13: every request_operations message is answered to the requester,     *)
(* with the retained operations or with a gap signal.                      *)
C13_RequestOperations_Answered ==
  [][last'.type = "request_operations" =>
       \E k \in 1..Len(sent') : sent'[k].to = last'.client]_vars

----------------------------------------------------------------------------
(* Properties of the session table (SpecSessions).                         *)

(* C14: in every state the members of every document's session are         *)
(* connected clients, and a client that has just disconnected is a member  *)
(* of no session.                                                          *)
C14_Members_Connected ==
  /\ \A f \in Files : Members(f) \subseteq clients
  /\ last.type = "disconnect" => \A f \in Files : last.client \notin Members(f)

(* a client has disconnected while both documents keep their other members *)
C14_Witness ==
  /\ last.type = "disconnect"
  /\ last.client \notin clients
  /\ \A f \in Files : Members(f) = Clients \ {last.client}

(* C15: a disconnect does for every document of the client what leave      *)
(* does: the member is removed and client_left is sent to the members that *)
(* remain.                                                                 *)
C15_Disconnect_AsLeave ==
  [][last'.type = "disconnect" =>
       \A f \in client_files[last'.client] :
         /\ MembersIn(file_sessions', f) = MembersIn(file_sessions, f) \ {last'.client}
         /\ \A m \in MembersIn(file_sessions', f) :
              \E k \in 1..Len(sent') :
                /\ sent'[k].to = m
                /\ sent'[k].msg = [type |-> "client_left", clientId |-> last'.client,
                                   filename |-> f]]_vars

(* the join just handled names a document *)
JoinOfFile == last'.type = "join_file" /\ last'.filename # NoName

(* C16: a join makes the client a member of the document's session, keeps  *)
(* the members there were, and sends client_joined once to every other     *)
(* member and never to the joiner.                                         *)
C16_Join_Registers_Notifies ==
  [][JoinOfFile =>
       LET f == last'.filename
           c == last'.client
           joined == {k \in 1..Len(sent') : sent'[k].msg.type = "client_joined"}
       IN /\ MembersIn(file_sessions', f) = MembersIn(file_sessions, f) \cup {c}
          /\ f \in client_files'[c]
          /\ {sent'[k].to : k \in joined} = MembersIn(file_sessions', f) \ {c}
          /\ Cardinality(joined) = Cardinality(MembersIn(file_sessions', f) \ {c})
          /\ \A k \in joined :
               sent'[k].msg = [type |-> "client_joined", clientId |-> c, filename |-> f]]_vars

(* the third client joined a document and the two members heard of it *)
C16_Witness ==
  /\ last.type = "join_file"
  /\ last.filename # NoName
  /\ Members(last.filename) = Clients
  /\ file_sessions[last.filename][3] = last.client
  /\ RecipientsOf("client_joined") = Clients \ {last.client}

(* C17: a leave removes the client from the document's session, touches no *)
(* other session, and sends client_left once to each member that remains   *)
(* and to nobody else; a leave of a document without session, or by a      *)
(* client that is not a member, changes no session and the client stays    *)
(* connected.                                                              *)
C17_Leave_Removes_Notifies ==
  [][last'.type = "leave_file" =>
       LET f == last'.filename
           c == last'.client
           left == {k \in 1..Len(sent') : sent'[k].msg.type = "client_left"}
       IN /\ \A g \in Files :
               MembersIn(file_sessions', g) =
                 IF g = f THEN MembersIn(file_sessions, g) \ {c}
                 ELSE MembersIn(file_sessions, g)
          /\ c \notin MembersIn(file_sessions, f) => file_sessions' = file_sessions
          /\ {sent'[k].to : k \in left} = MembersIn(file_sessions', f)
          /\ Cardinality(left) = Cardinality(MembersIn(file_sessions', f))
          /\ Len(sent') = Cardinality(left)
          /\ c \in clients']_vars

(* a leave was told to the two members that remain *)
C17_Witness ==
  /\ last.type = "leave_file"
  /\ last.filename # NoName
  /\ Members(last.filename) = Clients \ {last.client}
  /\ RecipientsOf("client_left") = Clients \ {last.client}

----------------------------------------------------------------------------
(* SpecLong: one client, one document, a history that outgrows the slice   *)
(* file_joined carries and the limit handle_change keeps.  The client      *)
(* numbers its changes: the k-th sets "a" to k.                            *)
LongValue(hist) == IF hist = <<>> THEN 1 ELSE hist[Len(hist)].value.n + 1

LongChange(f) == ChangeIn("set", <<SKey("a")>>, Num(LongValue(change_history[f])))

NextLong ==
  \/ Connect("c1")
  \/ HandleJoinFile("c1", "f1")
  \/ /\ LongValue(change_history["f1"]) <= MaxLongChanges
     /\ HandleChange("c1", "f1", LongChange("f1"), TRUE)

SpecLong == Init /\ [][NextLong]_vars

(* C18: file_joined carries as history the last min(50, n) entries of the  *)
(* document's history of length n, in history order.                       *)
C18_Join_HistorySlice ==
  (last.type = "join_file" /\ last.filename # NoName) =>
    LET h == change_history[last.filename]
        n == Len(h)
        k == IF n < 50 THEN n ELSE 50
        m == sent[1].msg
    IN /\ m.type = "file_joined"
       /\ Len(m.history) = k
       /\ \A i \in 1..k : m.history[i] = h[n - k + i]

(* a join while the history holds 51 changes: entries 2 to 51 are sent *)
C18_Witness ==
  /\ last.type = "join_file"
  /\ Len(change_history["f1"]) = 51
  /\ Len(sent[1].msg.history) = 50
  /\ sent[1].msg.history[1].value = Num(2)
  /\ sent[1].msg.history[50].value = Num(51)

(* the change message just handled carried a filename and a change *)
ChangeHandled ==
  /\ last'.type = "change"
  /\ last'.filename # NoName
  /\ last'.change # Absent

(* C19: after every change message the history has at most 1000 entries,   *)
(* ends with the change just received, and before it holds the entries it  *)
(* held, in their order, less the oldest one when it was full.             *)
C19_History_KeepsNewest ==
  [][ChangeHandled =>
       LET h == change_history[last'.filename]
           g == change_history'[last'.filename]
           n == Len(h)
       IN /\ Len(g) <= 1000
          /\ Len(g) = IF n < 1000 THEN n + 1 ELSE 1000
          /\ g[Len(g)].value = last'.change.value
          /\ g[Len(g)].clientId = last'.client
          /\ \A i \in 1..(Len(g) - 1) : g[i] = h[i + n + 1 - Len(g)]]_vars

(* 1002 changes were sent: the history holds the 3rd to the 1002nd *)
C19_Witness ==
  /\ Len(change_history["f1"]) = 1000
  /\ change_history["f1"][1].value = Num(3)
  /\ change_history["f1"][1000].value = Num(1002)

----------------------------------------------------------------------------
(* C20: no two entries of the histories, of one document or of two, have   *)
(* the same changeId, also when a client sends two changes within one      *)
(* clock reading.                                                          *)
C20_ChangeId_Unique ==
  \A f \in Files, g \in Files :
    \A i \in 1..Len(change_history[f]), j \in 1..Len(change_history[g]) :
      (f # g \/ i # j) => change_history[f][i].changeId # change_history[g][j].changeId

----------------------------------------------------------------------------
(* SpecRetain: an undone change under a long history.  c1 sends the first  *)
(* change and undoes it; c2 sends the numbered changes that follow and     *)
(* redoes c1's change by its changeId.                                     *)
FirstChange == ChangeIn("set", <<SKey("b")>>, Num(0))

FirstId == <<"c1", now>>

NextRetain ==
  \/ \E c \in SpecClients : Connect(c)
  \/ /\ Len(change_history["f1"]) = 0
     /\ HandleChange("c1", "f1", FirstChange, TRUE)
  \/ /\ Len(change_history["f1"]) > 0
     /\ LongValue(change_history["f1"]) <= MaxLongChanges
     /\ HandleChange("c2", "f1", LongChange("f1"), TRUE)
  \/ HandleUndo("c1", "f1", TRUE)
  \/ HandleRedo("c2", "f1", FirstId, TRUE)

SpecRetain == Init /\ [][NextRetain]_vars

(* C21, as stated: an entry marked undone is still in the history after    *)
(* the next message, whatever that message is, so a redo with its changeId *)
(* finds it.                                                               *)
C21_Undone_Retained ==
  [][\A f \in Files : \A i \in 1..Len(change_history[f]) :
       change_history[f][i].undone =>
         \E j \in 1..Len(change_history'[f]) :
           change_history'[f][j].changeId = change_history[f][i].changeId]_vars

(* the entries the message just handled pushed out of the history of f:    *)
(* one, when it was a change appended to a history of 1000                 *)
PushedOut(f) ==
  IF ChangeHandled /\ last'.filename = f /\ Len(change_history[f]) = HistoryLimit THEN 1 ELSE 0

(* C21, amended: an undone entry stays in the history, in its place and    *)
(* marked undone until a redo with its changeId clears the flag, unless it *)
(* is the oldest of 1000 entries and a further change is appended: undo    *)
(* and redo remove nothing, the history limit drops the oldest entry,      *)
(* undone or not.                                                          *)
C21_Undone_Retained_WithinLimit ==
  [][\A f \in Files : \A i \in 1..Len(change_history[f]) :
       (change_history[f][i].undone /\ i > PushedOut(f)) =>
         LET e == change_history'[f][i - PushedOut(f)] IN
         \/ e = change_history[f][i]
         \/ /\ last'.type = "redo"
            /\ last'.changeId = change_history[f][i].changeId
            /\ e = [change_history[f][i] EXCEPT !.undone = FALSE, !.undoneAt = 0]]_vars

(* c1's undone change is the oldest of 1000 entries: 999 changes came after *)
C21_Witness ==
  /\ Len(change_history["f1"]) = 1000
  /\ change_history["f1"][1].clientId = "c1"
  /\ change_history["f1"][1].undone
  /\ change_history["f1"][1000].value = Num(999)

----------------------------------------------------------------------------
(* the sends of the last handler that raised and were logged *)
FailedSends == {i \in 1..Len(sent) : ~sent[i].ok}

(* C22: when a send of a broadcast fails, every other member of the        *)
(* session except the origin is still sent the message, the members whose  *)
(* socket works receive it, and a full_sync handler still goes on to save  *)
(* the document.                                                           *)
C22_Broadcast_SurvivesFailure ==
  (Broadcasting /\ FailedSends # {}) =>
    /\ \A m \in Members(last.filename) \ {last.client} :
         \E i \in 1..Len(sent) : sent[i].to = m /\ sent[i].ok = (m \notin broken)
    /\ last.type = "full_sync" => saves = {last.filename}

(* a full_sync whose first send failed, whose second send was delivered    *)
(* and which saved the document                                            *)
C22_Witness ==
  /\ last.type = "full_sync"
  /\ Len(sent) = 2
  /\ ~sent[1].ok
  /\ sent[2].ok
  /\ saves = {last.filename}

----------------------------------------------------------------------------
(* C23: a message that does not parse, or whose type is unknown, changes   *)
(* no session, no document and no history, sends nothing, and leaves its   *)
(* sender connected and registered.                                        *)
C23_Malformed_Dropped ==
  [][last'.type \in {"invalid_json", "unknown"} =>
       /\ file_sessions' = file_sessions
       /\ client_files' = client_files
       /\ file_data' = file_data
       /\ change_history' = change_history
       /\ disk' = disk
       /\ sent' = <<>>
       /\ clients' = clients
       /\ last'.client \in clients']_vars

(* a member of a session whose document has a history sent such a message *)
C23_Witness ==
  /\ last.type \in {"invalid_json", "unknown"}
  /\ last.client \in Members("f1")
  /\ last.client \in clients
  /\ Len(change_history["f1"]) > 0

----------------------------------------------------------------------------
(* SpecPaths: changes whose paths cannot be walked, or name the key the    *)
(* sync timestamp is stored under.  Two clients, one document.             *)
(* what each client sends: c1 the changes that apply, c2 those that abort *)
PathChanges(c) ==
  IF c = "c1"
  THEN { ChangeIn("set", <<SKey("a")>>, Num(5)),
         ChangeIn("set", <<TsKey>>, Num(5)) }
  ELSE { ChangeIn("set", <<SKey("a"), SKey("b")>>, Num(5)),
         ChangeIn("set", <<SKey("items"), SKey("0"), SKey("done")>>, Bool(TRUE)) }

NextPaths ==
  \/ \E f \in SpecFiles : HandleFullSync("c1", f, DocA, NoTs, TRUE)
  \/ \E c \in SpecClients, f \in SpecFiles :
       \/ Connect(c)
       \/ HandleJoinFile(c, f)
       \/ \E ch \in PathChanges(c) :
            Len(change_history[f]) < MaxPathChanges /\ HandleChange(c, f, ch, TRUE)
       \/ HandleUndo(c, f, TRUE)

SpecPaths == Init /\ [][NextPaths]_vars

(* the document a change handler applies to: the cached one, or the one it *)
(* loads first                                                             *)
DocBefore(f) == IF file_data[f] = NotLoaded THEN LoadFileData(f) ELSE file_data[f]

(* the change just handled aborted on a path-navigation failure *)
AbortedChange ==
  /\ last'.type = "change"
  /\ last'.filename # NoName
  /\ last'.change # Absent
  /\ ApplyChange(DocBefore(last'.filename),
                 Stamp(last'.change, last'.client)).status = "aborted"

(* C26: a change whose apply aborted on a path-navigation failure is not   *)
(* appended to the document's history.                                     *)
C26_Aborted_NotInHistory ==
  [][AbortedChange => change_history' = change_history]_vars

(* line 177 on a document: the timestamp it carries, 0 when it has none *)
TimestampIn(doc) ==
  IF doc = NotLoaded THEN Num(0)
  ELSE IF TsKey \in DOMAIN doc.entries THEN doc.entries[TsKey] ELSE Num(0)

(* C27: no change, undo or redo message alters the lastSyncTimestamp of    *)
(* the document it names.                                                  *)
C27_Timestamp_OnlyFullSync ==
  [][(last'.type \in {"change", "undo", "redo"} /\ last'.filename # NoName) =>
       TimestampIn(file_data'[last'.filename]) = CurrentTimestamp(last'.filename)]_vars

----------------------------------------------------------------------------
(* the undo just handled reverted a change whose path cannot be walked in  *)
(* the cached document                                                     *)
AbortedRevert ==
  /\ last'.type = "undo"
  /\ last'.filename # NoName
  /\ file_data[last'.filename] # NotLoaded
  /\ LET i == UndoTarget(change_history[last'.filename], last'.client) IN
     /\ i # 0
     /\ TargetOf(file_data[last'.filename],
                 change_history[last'.filename][i].path, 1) = Null

----------------------------------------------------------------------------
(* the node the first n segments of the path lead to, Absent when the walk *)
(* does not get there                                                      *)
RECURSIVE Reach(_, _, _, _)
Reach(node, path, i, n) ==
  IF i > n THEN node
  ELSE IF IsDict(node)
       THEN (IF path[i] \in DOMAIN node.entries
             THEN Reach(node.entries[path[i]], path, i + 1, n) ELSE Absent)
       ELSE IF IsList(node)
            THEN LET c == ToIdx(path[i]) IN
                 IF c.ok /\ InRange(node.elems, c.i)
                 THEN Reach(node.elems[c.i + 1], path, i + 1, n) ELSE Absent
            ELSE Absent

(* apply created the container at position i of the path: it is in a Map   *)
(* of the document now and was not in the document before                  *)
CreatedAt(i) ==
  /\ IsDict(Reach(eng.doc, EngPath, 1, i - 1))
  /\ EngPath[i] \in DOMAIN Reach(eng.doc, EngPath, 1, i - 1).entries
  /\ Reach(eng.doc0, EngPath, 1, i) = Absent

(* C28: the container apply creates at position i of a path is a Sequence  *)
(* when the segment at position i+1 is numeric-looking and a Map when it   *)
(* is not, at every position of every path.                                *)
C28_Created_ByNextSegment ==
  (eng.phase = "applied" /\ eng.status # "raised") =>
    \A i \in 1..(Len(EngPath) - 1) :
      CreatedAt(i) =>
        LET made == Reach(eng.doc, EngPath, 1, i) IN
        IF NumericLooking(EngPath[i + 1]) THEN IsList(made) ELSE IsDict(made)

(* the position the change names, in the document before apply *)
PositionBefore ==
  LET t == Reach(eng.doc0, EngPath, 1, Len(EngPath) - 1)
      key == EngPath[Len(EngPath)]
  IN IF IsDict(t) THEN (IF key \in DOMAIN t.entries THEN <<"present", t.entries[key]>>
                        ELSE <<"absent", Null>>)
     ELSE IF IsList(t) /\ ToIdx(key).ok /\ InRange(t.elems, ToIdx(key).i)
          THEN <<"present", t.elems[ToIdx(key).i + 1]>>
          ELSE <<"absent", Null>>

(* C30: a change that carries an oldValue keeps it through apply; one that *)
(* carries none gets the value at its position, and for an absent position *)
(* a sentinel that is not null.                                            *)
C30_OldValue_Captured ==
  (eng.phase = "applied" /\ eng.status = "ok") =>
    IF eng.ch0.hasOld
    THEN eng.ch.hasOld /\ eng.ch.oldValue = eng.ch0.oldValue
    ELSE /\ eng.ch.hasOld
         /\ PositionBefore[1] = "present" => eng.ch.oldValue = PositionBefore[2]
         /\ PositionBefore[1] = "absent" => eng.ch.oldValue # Null

----------------------------------------------------------------------------
(* SpecTasks: the handlers of two connections interleaved at their         *)
(* suspension points.  Each connection runs one handler at a time (line    *)
(* 40 awaits handle_message); a handler runs without interruption up to an *)
(* await that suspends, and another connection's handler may run before it *)
(* resumes.  The awaits of handle_change and handle_undo are those of      *)
(* apply_change, broadcast_to_file and save_file_data.                     *)

(* a plausible slip: the file is read with asynchronous I/O, so a handler  *)
(* is suspended inside apply_change while the document loads              *)
LoadSuspendsOnRead == TRUE

(* lines 457-471: load_file_data reads the file with blocking calls and    *)
(* awaits nothing, so `await self.load_file_data` never suspends           *)
LoadSuspends == FALSE

(* a plausible slip: the change is appended to the history after the      *)
(* broadcast                                                               *)
AppendsAfterBroadcast == FALSE

(* lines 214-228: the history append comes before the awaits of the        *)
(* broadcast                                                               *)
AppendsBeforeBroadcast == TRUE

(* lines 502-504: the members broadcast_to_file sends to, in order *)
Recipients(f, exclude) ==
  IF f \in DOMAIN file_sessions
  THEN SelectSeq(file_sessions[f], LAMBDA m : m # exclude) ELSE <<>>

(* the n-th change the server receives for f sets a to n *)
TaskChange(f) == ChangeIn("set", <<SKey("a")>>, Num(Len(received[f]) + 1))

(* lines 230-231, 261: the handler of c leaves its last await, saves and   *)
(* returns to the message loop                                             *)
Finish(c, f, ch, fd, hist) ==
  /\ UNCHANGED delivered
  /\ change_history' =
       IF AppendsBeforeBroadcast \/ ch = Absent THEN hist
       ELSE [hist EXCEPT ![f] = AppendHistory(@, ch)]
  /\ saves' = SaveAttempt(fd, f)
  /\ disk' = SaveFileData(fd, f, TRUE)
  /\ tasks' = [tasks EXCEPT ![c] = TaskIdle]

(* the number of entries of the dict self.file_sessions[f] *)
SessionSize(f) == IF f \in DOMAIN file_sessions THEN Len(file_sessions[f]) ELSE 0

(* lines 489-504: the handler of c sends msg to the next member and is     *)
(* suspended in websocket.send (line 493), or has no member left; size is  *)
(* the size the dict had when the loop of line 502 began to iterate it     *)
Broadcast(c, f, ch, todo, msg, fd, hist, size) ==
  IF todo = <<>>
  THEN sent' = <<>> /\ Finish(c, f, ch, fd, hist)
  ELSE /\ sent' = SendToClient(Head(todo), msg)
       /\ delivered' = IF msg.type = "change"
                       THEN [delivered EXCEPT ![Head(todo)] = Append(@, msg.change.value.n)]
                       ELSE delivered
       /\ tasks' = [tasks EXCEPT ![c] = [pc |-> "send", file |-> f, ch |-> ch,
                                          todo |-> Tail(todo), msg |-> msg,
                                          size |-> size]]
       /\ change_history' = hist
       /\ saves' = {}
       /\ UNCHANGED disk

(* lines 211-228: apply, append to the history, start the broadcast *)
ApplyAndBroadcast(c, f, ch, doc, loaded) ==
  LET r == ApplyChange(doc, ch)
      fd == [file_data EXCEPT ![f] = r.node]
      hist == IF AppendsBeforeBroadcast
              THEN [change_history EXCEPT ![f] = AppendHistory(@, r.ch)]
              ELSE change_history
  IN /\ file_data' = fd
     /\ loads' = IF loaded THEN [loads EXCEPT ![f] = @ + 1] ELSE loads
     /\ applied' = [applied EXCEPT ![f] = Append(@, r.ch.value.n)]
     /\ Broadcast(c, f, r.ch, Recipients(f, c),
                  [type |-> "change", filename |-> f, change |-> r.ch], fd, hist,
                  SessionSize(f))

(* lines 39-40, 198-212: the message loop of c takes a change for f *)
ChangeBegin(c, f) ==
  /\ c \in clients
  /\ tasks[c].pc = "idle"
  /\ Len(received[f]) < MaxTaskChanges
  /\ last' = [Inbound("change", c, f) EXCEPT !.change = TaskChange(f)]
  /\ received' = [received EXCEPT ![f] = Append(@, TaskChange(f).value.n)]
  /\ IF LoadSuspends /\ file_data[f] = NotLoaded
     THEN /\ tasks' = [tasks EXCEPT ![c] = [pc |-> "load", file |-> f,
                                             ch |-> Stamp(TaskChange(f), c),
                                             todo |-> <<>>, msg |-> Absent,
                                             size |-> 0]]
          /\ sent' = <<>>
          /\ saves' = {}
          /\ UNCHANGED <<file_data, loads, applied, change_history, disk, delivered>>
     ELSE ApplyAndBroadcast(c, f, Stamp(TaskChange(f), c), DocBefore(f),
                            file_data[f] = NotLoaded)
  /\ UNCHANGED <<clients, broken, file_sessions, client_files, operation_logs,
                 operation_sequences, now, eng>>

(* lines 39-40, 233-259: the message loop of c takes an undo for f; mark   *)
(* and revert run before the first await that suspends                     *)
UndoBegin(c, f) ==
  /\ c \in clients
  /\ tasks[c].pc = "idle"
  /\ UndoTarget(change_history[f], c) # 0
  /\ file_data[f] # NotLoaded   \* a change in the history was applied to a loaded document
  /\ last' = Inbound("undo", c, f)
  /\ LET i == UndoTarget(change_history[f], c)
         ch == [change_history[f][i] EXCEPT !.undone = TRUE, !.undoneAt = now]
         fd == [file_data EXCEPT ![f] = RevertChange(file_data[f], ch).node]
     IN /\ file_data' = fd
        /\ Broadcast(c, f, Absent, Recipients(f, NoOne),
                     [type |-> "undo", filename |-> f, changeId |-> ch.changeId],
                     fd, [change_history EXCEPT ![f][i] = ch], SessionSize(f))
  /\ UNCHANGED <<clients, broken, file_sessions, client_files, operation_logs,
                 operation_sequences, now, loads, eng, received, applied>>

(* line 502: the dict iterator finds the size of the dict changed and      *)
(* raises RuntimeError; it leaves the loop and the handler, and is caught  *)
(* at line 92                                                              *)
SizeChanged(c) == SessionSize(tasks[c].file) # tasks[c].size

(* the handler of c resumes from the await it was suspended in; after a    *)
(* send the loop of line 502 asks the dict iterator for the next member    *)
Resume(c) ==
  /\ tasks[c].pc # "idle"
  /\ last' = Inbound("resume", c, tasks[c].file)
  /\ IF tasks[c].pc = "load"
     THEN ApplyAndBroadcast(c, tasks[c].file, tasks[c].ch,
                            LoadFileData(tasks[c].file), TRUE)
     ELSE IF SizeChanged(c)
          THEN /\ tasks' = [tasks EXCEPT ![c] = TaskIdle]
               /\ sent' = <<>>
               /\ saves' = {}
               /\ UNCHANGED <<file_data, loads, applied, change_history, disk, delivered>>
          ELSE /\ Broadcast(c, tasks[c].file, tasks[c].ch, tasks[c].todo, tasks[c].msg,
                            file_data, change_history, tasks[c].size)
               /\ UNCHANGED <<file_data, loads, applied>>
  /\ UNCHANGED <<clients, broken, file_sessions, client_files, operation_logs,
                 operation_sequences, now, eng, received>>

(* no handler is suspended *)
Quiet == \A c \in Clients : tasks[c].pc = "idle"

NextTasks ==
  \E c \in SpecClients :
    \/ Connect(c)
    \/ \E f \in SpecFiles :
         \/ Quiet /\ HandleJoinFile(c, f)
         \/ ChangeBegin(c, f)
         \/ UndoBegin(c, f)
    \/ Resume(c)

SpecTasks == Init /\ [][NextTasks]_vars

----------------------------------------------------------------------------
IsPrefix(s, t) == Len(s) <= Len(t) /\ \A i \in 1..Len(s) : s[i] = t[i]

(* the changes of the history of f, by the number of their receipt *)
HistoryOrder(f) == [i \in 1..Len(change_history[f]) |-> change_history[f][i].value.n]

(* the handlers suspended part-way through apply_change on f *)
InsideApply(f) == {c \in Clients : tasks[c].pc = "load" /\ tasks[c].file = f}

(* the handlers suspended anywhere on f *)
InFlight(f) == {c \in Clients : tasks[c].pc # "idle" /\ tasks[c].file = f}

(* C24: for every document, the order in which changes are applied and the *)
(* order in which they stand in the history are the order of receipt,      *)
(* under every interleaving of the handlers.                               *)
C24_Apply_In_Receipt_Order ==
  \A f \in Files :
    /\ IsPrefix(applied[f], received[f])
    /\ IsPrefix(HistoryOrder(f), received[f])

(* the second change was received and applied while the handler of the     *)
(* first was still suspended in its broadcast                              *)
C24_Witness ==
  /\ received["f1"] = <<1, 2>>
  /\ applied["f1"] = <<1, 2>>
  /\ \E c \in Clients : tasks[c].pc = "send" /\ tasks[c].ch # Absent
                         /\ tasks[c].ch.value = Num(1)

(* C25: at every suspension point of every handler no handler is part-way  *)
(* through an apply or a revert of any document: each apply and each       *)
(* revert runs from start to end between two suspension points, so no      *)
(* handler reads or writes a document another handler is half-way through  *)
(* changing.                                                               *)
C25_Apply_Revert_Serialized ==
  /\ \A f \in Files : InsideApply(f) = {}
  /\ \A c \in Clients : tasks[c].pc \in {"idle", "send"}

(* two handlers are suspended on the same document at once, one of them an *)
(* undo, both past their apply or revert                                   *)
C25_Witness ==
  /\ InFlight("f1") = SpecClients
  /\ \E c \in SpecClients : tasks[c].msg.type = "undo"
  /\ \E c \in SpecClients : tasks[c].msg.type = "change"

----------------------------------------------------------------------------
(* C40: the two membership indexes agree: c is a member of the session of  *)
(* f exactly when f is among the files of c, and no session is kept with   *)
(* no member.                                                              *)
C40_Indexes_Agree ==
  /\ \A c \in Clients : \A f \in Files :
       (f \in DOMAIN file_sessions /\ \E i \in 1..Len(file_sessions[f]) :
                                         file_sessions[f][i] = c)
         <=> f \in client_files[c]
  /\ \A f \in DOMAIN file_sessions : Len(file_sessions[f]) > 0

(* a client has just left a session another client stays in, no session   *)
(* of f2 is kept, and a client that is not connected holds no file         *)
C40_Witness ==
  /\ last.type = "leave_file"
  /\ last.filename = "f1"
  /\ Members("f1") # {}
  /\ last.client \notin Members("f1")
  /\ "f2" \notin DOMAIN file_sessions
  /\ \E c \in Clients : c \notin clients /\ client_files[c] = {}

----------------------------------------------------------------------------
(* the container the change addresses, in the document of the engine now *)
EngTarget == Reach(eng.doc, EngPath, 1, Len(EngPath) - 1)

EngApplies == eng.phase = "input" /\ eng'.phase = "applied"

EngReverts == eng.phase = "applied" /\ eng'.phase = "reverted"

(* the change of the engine addresses a Sequence by a numeric index *)
OnSequence(type) ==
  /\ eng.ch0.type = type
  /\ Len(EngPath) > 0
  /\ IsList(EngTarget)
  /\ ToIdx(LastKey(eng.ch0)).ok

(* C31: apply of a set on a Sequence overwrites the element at the index   *)
(* when the index is in range and appends the value otherwise; revert of   *)
(* that set writes the old value at the index when the index is in range   *)
(* and changes nothing otherwise.                                          *)
C31_Set_OnSequence ==
  [][OnSequence("set") =>
       LET n == ToIdx(LastKey(eng.ch0)).i
           before == EngTarget.elems
           after == Reach(eng'.doc, EngPath, 1, Len(EngPath) - 1).elems
           inside == 0 <= n /\ n < Len(before)
       IN /\ EngApplies =>
               after = IF inside THEN [before EXCEPT ![n + 1] = eng.ch0.value]
                       ELSE Append(before, eng.ch0.value)
          /\ EngReverts =>
               IF inside THEN after = [before EXCEPT ![n + 1] = eng.ch.oldValue]
               ELSE eng'.doc = eng.doc]_vars

(* a set at index 7 of a Sequence of two was appended, and its revert left *)
(* the Sequence of three as it was                                         *)
C31_Witness ==
  /\ eng.phase = "reverted"
  /\ eng.ch0.type = "set"
  /\ EngPath = <<SKey("items"), SKey("7")>>
  /\ eng.doc0 = MapOf1("items", List(<<Num(1), Num(2)>>))
  /\ eng.doc = MapOf1("items", List(<<Num(1), Num(2), Num(5)>>))

----------------------------------------------------------------------------
(* the change of the engine addresses a position of a container that was   *)
(* in the document before the apply                                        *)
OnContainer(type) ==
  /\ eng.ch0.type = type
  /\ Len(EngPath) > 0
  /\ \/ IsDict(Reach(eng.doc0, EngPath, 1, Len(EngPath) - 1))
     \/ IsList(Reach(eng.doc0, EngPath, 1, Len(EngPath) - 1))

(* C32: apply of a delete followed by its revert restores the container:   *)
(* the revert raises nothing and the document is what it was before the    *)
(* apply, whether the position was absent, a key of a Map or an index of a *)
(* Sequence.                                                               *)
C32_Delete_Revert_Restores ==
  (eng.phase = "reverted" /\ OnContainer("delete") /\ ~eng.ch0.hasOld) =>
    eng.status = "ok" /\ eng.doc = eng.doc0

(* C33: apply of an insert at an index of a Sequence puts the value at     *)
(* that index and shifts the later elements right, and changes nothing on  *)
(* a Map; revert of that insert removes the element at the index and       *)
(* raises nothing, for integer and numeric-string indices, in range or not *)
C33_Insert_OnSequence ==
  [][/\ OnSequence("insert") =>
          LET n == ToIdx(LastKey(eng.ch0)).i
              before == EngTarget.elems
              after == Reach(eng'.doc, EngPath, 1, Len(EngPath) - 1).elems
          IN /\ (EngApplies /\ 0 <= n /\ n <= Len(before)) =>
                  after = SubSeq(before, 1, n) \o <<eng.ch0.value>>
                            \o SubSeq(before, n + 1, Len(before))
             /\ EngReverts =>
                  /\ eng'.status = "ok"
                  /\ (0 <= n /\ n < Len(before)) =>
                       after = SubSeq(before, 1, n) \o SubSeq(before, n + 2, Len(before))
     /\ (eng.ch0.type = "insert" /\ Len(EngPath) > 0 /\ IsDict(EngTarget)
         /\ (EngApplies \/ EngReverts)) => eng'.doc = eng.doc]_vars

----------------------------------------------------------------------------
(* the undo or redo just handled changed the undone flag of an entry *)
FlagChanged ==
  /\ last'.type \in {"undo", "redo"}
  /\ last'.filename # NoName
  /\ \E i \in 1..Len(change_history[last'.filename]) :
       change_history'[last'.filename][i].undone
         # change_history[last'.filename][i].undone

(* C37: a handler that sets or clears the undone flag of a history entry   *)
(* sends the undo or redo notification to every connected member of the    *)
(* document's session.                                                     *)
C37_Flag_Broadcast ==
  [][FlagChanged =>
       \A m \in Members(last'.filename) \cap clients :
         \E k \in 1..Len(sent') :
           sent'[k].to = m /\ sent'[k].msg.type = last'.type]_vars

----------------------------------------------------------------------------
(* SpecRedo: the change engine through an undo and a redo of one change:   *)
(* apply, revert, and apply again of the change as the history holds it.   *)

(* lines 276-280: handle_redo re-applies the entry, which carries the      *)
(* oldValue the first apply captured; it follows an undo whether or not    *)
(* the revert of that undo raised, since the flag is set before the revert *)
EngReapply ==
  /\ eng.phase = "reverted"
  /\ LET r == ApplyChange(eng.doc, eng.ch) IN
     eng' = [eng EXCEPT !.phase = "redone", !.doc = r.node, !.ch = r.ch,
                        !.status = r.status]
  /\ UNCHANGED serverVars

NextRedo == EngApply \/ EngRevert \/ EngReapply

SpecRedo == InitEngine /\ [][NextRedo]_vars

(* C38: an undo of a change followed at once by its redo leaves the        *)
(* document as it was just before the undo, that is as the first apply of  *)
(* the change left it, for every change type and target kind.              *)
C38_Undo_Redo_Restores ==
  eng.phase = "redone" => eng.doc = ApplyChange(eng.doc0, eng.ch0).node

----------------------------------------------------------------------------
(* SpecMembers: the session of one document changes while the broadcast of *)
(* a change is suspended.  Three clients, so that two change handlers can  *)
(* be suspended while a third client is a member.  join_file, leave_file   *)
(* and the disconnect cleanup run in the message loop of their own client, *)
(* so only while that client has no handler suspended; their own sends are *)
(* taken in one step.                                                      *)

(* no broadcast of f that is suspended has seen the session change yet.    *)
(* What the dict iterator does after a removal and an insertion that leave *)
(* the size equal depends on the interpreter, so at most one membership    *)
(* change is taken per suspension.                                         *)
Undisturbed(f) ==
  \A d \in Clients :
    (tasks[d].pc = "send" /\ tasks[d].file = f) => SessionSize(f) = tasks[d].size

(* the clients that send changes; the third one only joins and leaves *)
Authors == {"c1", "c2"}

NextMembers ==
  \E c \in Clients :
    \/ Connect(c)
    \/ /\ tasks[c].pc = "idle"
       /\ \A f \in client_files[c] : Undisturbed(f)
       /\ Disconnect(c)
    \/ \E f \in SpecFiles :
         \/ tasks[c].pc = "idle" /\ Undisturbed(f) /\ HandleJoinFile(c, f)
         \/ tasks[c].pc = "idle" /\ Undisturbed(f) /\ HandleLeaveFile(c, f)
         \/ c \in Authors /\ ChangeBegin(c, f)
    \/ Resume(c)

SpecMembers == Init /\ [][NextMembers]_vars

(* the change messages the step sent carry changes that are in the history *)
(* and have been applied                                                   *)
SentAfterApplied ==
  \A k \in 1..Len(sent') :
    sent'[k].msg.type = "change" =>
      /\ sent'[k].msg.change.value.n \in Range(applied'[sent'[k].msg.filename])
      /\ \E i \in 1..Len(change_history'[sent'[k].msg.filename]) :
           change_history'[sent'[k].msg.filename][i] = sent'[k].msg.change

(* C34: a change is applied and in the history when its broadcast is sent  *)
(* to a member, and neither the disconnect of a client nor a broadcast     *)
(* that ends early takes a change back: the document and the histories     *)
(* stay as they are.                                                       *)
C34_Applied_Before_Broadcast ==
  [][/\ SentAfterApplied
     /\ last'.type \in {"disconnect", "resume"} =>
          /\ file_data' = file_data
          /\ change_history' = change_history]_vars

(* the author of change 1 has disconnected after its broadcast ended early *)
(* (c2 was sent the change, the member c3 was not): the change is still in *)
(* the history and in the document                                         *)
C34_Witness ==
  /\ last.type = "disconnect"
  /\ last.client = "c1"
  /\ "c3" \in Members("f1")
  /\ 1 \in Range(delivered["c2"])
  /\ 1 \notin Range(delivered["c3"])
  /\ \E i \in 1..Len(change_history["f1"]) :
       change_history["f1"][i].clientId = "c1" /\ change_history["f1"][i].value = Num(1)
  /\ Get(file_data["f1"].entries, SKey("a")) = Num(1)

(* the handler of c ends in this step *)
HandlerEnds(c) == tasks[c].pc = "send" /\ tasks'[c].pc = "idle"

(* C35: a broadcast that was suspended reaches every client that is still  *)
(* on its list and still a member, and its handler goes on to save, also   *)
(* when the session changed during the suspension.                         *)
C35_Broadcast_Survives_Membership ==
  [][\A c \in Clients :
       HandlerEnds(c) =>
         /\ saves' = {tasks[c].file}
         /\ \A m \in Range(tasks[c].todo) \cap Members(tasks[c].file) :
              \E k \in 1..Len(sent') : sent'[k].to = m]_vars

(* C36: every client is sent the changes of a document in the order in     *)
(* which they were applied, which is the order of their numbers.           *)
C36_Delivery_In_Apply_Order ==
  \A m \in Clients :
    \A i, j \in 1..Len(delivered[m]) : i < j => delivered[m][i] < delivered[m][j]

(* C39: once no handler is running, the last save of every changed         *)
(* document carried its in-memory value: the file holds what the cache     *)
(* holds.                                                                  *)
C39_Saved_When_Quiet ==
  \A f \in Files : (Quiet /\ applied[f] # <<>>) => disk[f] = file_data[f]

====
